---- MODULE Spec2Model ----
(***************************************************************************)
(* Model of the NEO collection pipeline: NASADataExtractor                 *)
(* (data_extraction.py) and DatabaseManager (database_setup.py).           *)
(*                                                                         *)
(* Dates are day offsets from 2024-01-01 (the value datetime.strptime      *)
(* yields at data_extraction.py:60 is offset 0); timedelta(days=n) is      *)
(* addition of n.  An API object is modelled by the fields the code reads: *)
(* its id string (a digit sequence), its close_approach_data list and      *)
(* whether every required key is present.                                  *)
(***************************************************************************)
EXTENDS Integers, Sequences, FiniteSets, TLC

\* ------------------------------------------------------------------ bounds
\* TARGET_RECORDS comes from config.py (data_extraction.py:6); scaled down.
TARGET_RECORDS == 2
\* ids of the upstream objects are the one-digit strings "1".."MaxId"
MaxId == 2
\* longest close_approach_data list of an upstream object
MaxApproaches == 2
\* most objects in the page given to one extract_asteroid_fields call
MaxObjects == 2
\* most objects in a page the feed serves during collect_data
MaxFeedObjects == 1
\* most records per list in a batch handed to insert_data directly
MaxBatch == 1
\* most connections a caller of create_tables and insert_data opens
MaxCalls == 3

\* ------------------------------------------------------- program constants
EpochYear == 2024
\* variant: the ceiling lies one year later
CeilingYearLater == EpochYear + 2

CeilingYear == 2025
WindowSpan == 6
WindowStep == 1

\* ---------------------------------------------------------------- calendar
IsLeap(y) == (y % 4 = 0 /\ y % 100 # 0) \/ y % 400 = 0

DaysInYear(y) == IF IsLeap(y) THEN 366 ELSE 365

DaysInMonth(y, m) ==
    IF m = 2 THEN (IF IsLeap(y) THEN 29 ELSE 28)
    ELSE IF m \in {4, 6, 9, 11} THEN 30 ELSE 31

RECURSIVE YearFrom(_, _)
YearFrom(y, d) ==
    IF d < DaysInYear(y) THEN y ELSE YearFrom(y + 1, d - DaysInYear(y))

RECURSIVE DayOfYearFrom(_, _)
DayOfYearFrom(y, d) ==
    IF d < DaysInYear(y) THEN d ELSE DayOfYearFrom(y + 1, d - DaysInYear(y))

RECURSIVE MonthDayFrom(_, _, _)
MonthDayFrom(y, m, d) ==
    IF d < DaysInMonth(y, m) THEN <<m, d + 1>>
    ELSE MonthDayFrom(y, m + 1, d - DaysInMonth(y, m))

\* start_date.year
Year(date) == YearFrom(EpochYear, date)

\* date.strftime("%Y-%m-%d"), as <<year, month, day>>
Strftime(date) ==
    LET y  == Year(date)
        md == MonthDayFrom(y, 1, DayOfYearFrom(EpochYear, date))
    IN  <<y, md[1], md[2]>>

\* ------------------------------------------------------------ upstream feed
Digits == 1..MaxId

\* the id strings the API delivers
IdStrs == {<<d>> : d \in Digits}

RECURSIVE IntOf(_)
\* int(asteroid['id'])
IntOf(s) ==
    IF s = <<>> THEN 0 ELSE 10 * IntOf(SubSeq(s, 1, Len(s) - 1)) + s[Len(s)]

\* a close_approach_data list of k events; event j carries date label j,
\* and event bad (if any) lacks a required key
ApproachList(k, bad) ==
    [j \in 1..k |-> [close_approach_date |-> j, complete |-> j # bad]]

\* the API objects: complete = FALSE when a required key of the object is
\* missing; of the events of an object at most the last lacks a key
Asteroids ==
    [id : IdStrs,
     close_approach_data : {ApproachList(k, 0) : k \in 0..MaxApproaches},
     complete : {TRUE}]
    \cup
    [id : IdStrs,
     close_approach_data : {ApproachList(k, k) : k \in 1..MaxApproaches},
     complete : {TRUE}]
    \cup
    [id : {<<1>>}, close_approach_data : {ApproachList(1, 0)}, complete : {FALSE}]

\* a page without a missing key
Valid(list) ==
    \A i \in DOMAIN list :
        /\ list[i].complete
        /\ \A j \in DOMAIN list[i].close_approach_data :
               list[i].close_approach_data[j].complete

SeqsUpTo(S, n) == UNION {[1..k -> S] : k \in 0..n}

RECURSIVE Flatten(_)
Flatten(groups) ==
    IF groups = <<>> THEN <<>> ELSE Head(groups) \o Flatten(Tail(groups))

RECURSIVE GroupByDate(_, _, _)
\* the list f of objects split into date groups after the positions in cuts
GroupByDate(f, cuts, cur) ==
    IF f = <<>> THEN (IF cur = <<>> THEN <<>> ELSE <<cur>>)
    ELSE IF Len(f) \in cuts
         THEN <<Append(cur, Head(f))>> \o GroupByDate(Tail(f), cuts, <<>>)
         ELSE GroupByDate(Tail(f), cuts, Append(cur, Head(f)))

\* neo_data['near_earth_objects']: date groups in key order, each a list of
\* objects; at most MaxObjects objects in the page
Pages ==
    {GroupByDate(f, cuts, <<>>) :
        f \in SeqsUpTo(Asteroids, MaxObjects),
        cuts \in SUBSET (2..MaxObjects)}

\* the pages the feed serves to collect_data: all objects under one date key
FeedPages ==
    {<<>>} \cup {<<f>> : f \in SeqsUpTo(Asteroids, MaxFeedObjects) \ {<<>>}}

\* ------------------------------------------------- NASADataExtractor state
VARIABLES
    asteroid_data,      \* self.asteroid_data
    approach_data,      \* self.approach_data
    start_date,         \* collect_data: start_date, as a day offset
    total_records,      \* collect_data: total_records
    start_str,          \* collect_data: start_str of the last fetch
    end_str,            \* collect_data: end_str of the last fetch
    neo_data,           \* collect_data: "None" or "json", the last fetch result
    available,          \* upstream feed: objects held by the windows requested
                        \* so far, counted up to TARGET_RECORDS
    requests,           \* HTTP GETs issued by this call of collect_data
    neo_page,           \* argument of a stand-alone extract_asteroid_fields call
    pc                  \* position in setup_database

\* -------------------------------------------------- DatabaseManager state
VARIABLES
    conn,               \* self.conn: 0 for None, else a connection id
    open_conns,         \* connections opened and not yet closed
    opened,             \* number of connections opened so far
    tables_exist,       \* the store has the two tables
    asteroids,          \* committed rows of table asteroids
    close_approach,     \* committed rows of table close_approach
    tx_asteroids,       \* rows inserted into asteroids, not yet committed
    tx_close_approach,  \* rows inserted into close_approach, not yet committed
    row                 \* insert_data: rows the running for loop has inserted

extractor_vars ==
    <<asteroid_data, approach_data, start_date, total_records, start_str,
      end_str, neo_data, requests, available>>

db_vars ==
    <<conn, open_conns, opened, tables_exist, asteroids, close_approach,
      tx_asteroids, tx_close_approach, row>>

vars == <<extractor_vars, db_vars, neo_page, pc>>

\* ------------------------------------------------ extract_asteroid_fields
\* The extractor's two lists while a page is being processed; raised is set
\* when a lookup of a missing key raised KeyError.
ExtractState(ast, app) ==
    [asteroid_data |-> ast, approach_data |-> app, raised |-> FALSE]

RECURSIVE ExtractApproaches(_, _, _)
\* lines 42-54: the inner loop; both lists get one record per approach
ExtractApproaches(st, asteroid_info, cad) ==
    IF cad = <<>> THEN st
    ELSE IF ~Head(cad).complete THEN [st EXCEPT !.raised = TRUE]
    ELSE LET approach_info ==
                 [neo_reference_id |-> asteroid_info.id,
                  close_approach_date |-> Head(cad).close_approach_date]
         IN  ExtractApproaches(
                 [st EXCEPT !.asteroid_data = Append(@, asteroid_info),
                            !.approach_data = Append(@, approach_info)],
                 asteroid_info, Tail(cad))

RECURSIVE ExtractApproachesOnly(_, _, _)
\* the inner loop of the variant below: only the approach list is appended to
ExtractApproachesOnly(st, asteroid_info, cad) ==
    IF cad = <<>> THEN st
    ELSE IF ~Head(cad).complete THEN [st EXCEPT !.raised = TRUE]
    ELSE LET approach_info ==
                 [neo_reference_id |-> asteroid_info.id,
                  close_approach_date |-> Head(cad).close_approach_date]
         IN  ExtractApproachesOnly(
                 [st EXCEPT !.approach_data = Append(@, approach_info)],
                 asteroid_info, Tail(cad))

\* variant: the object record is appended once per object, before the loop
\* over its close approaches
ExtractAsteroidOncePerObject(st, asteroid) ==
    IF st.raised THEN st
    ELSE IF ~asteroid.complete THEN [st EXCEPT !.raised = TRUE]
    ELSE ExtractApproachesOnly(
             [st EXCEPT !.asteroid_data = Append(@, [id |-> IntOf(asteroid.id)])],
             [id |-> IntOf(asteroid.id)], asteroid.close_approach_data)

\* lines 30-54: one object of the page
ExtractAsteroid(st, asteroid) ==
    IF st.raised THEN st
    ELSE IF ~asteroid.complete THEN [st EXCEPT !.raised = TRUE]
    ELSE ExtractApproaches(st, [id |-> IntOf(asteroid.id)],
                           asteroid.close_approach_data)

\* variant: the loop over a date's objects stops after the first object
ExtractAsteroidsFirstOnly(st, list) ==
    IF list = <<>> THEN st ELSE ExtractAsteroid(st, Head(list))

RECURSIVE ExtractAsteroids(_, _)
ExtractAsteroids(st, list) ==
    IF list = <<>> THEN st
    ELSE ExtractAsteroids(ExtractAsteroid(st, Head(list)), Tail(list))

RECURSIVE ExtractDates(_, _)
ExtractDates(st, groups) ==
    IF groups = <<>> THEN st
    ELSE ExtractDates(ExtractAsteroids(st, Head(groups)), Tail(groups))

\* extract_asteroid_fields(neo_data) applied to the lists ast and app
ExtractAsteroidFields(ast, app, page) ==
    ExtractDates(ExtractState(ast, app), page)


\* the Python slice list[:n]
Slice(list, n) == IF Len(list) <= n THEN list ELSE SubSeq(list, 1, n)

\* lines 91-92: list[:TARGET_RECORDS]
Truncate(list) == Slice(list, TARGET_RECORDS)

\* number of object entries of a page
NumObjects(page) == Len(Flatten(page))

\* value of available in runs that do not count the feed's objects
NotCounted == 0 - 1

\* the feed's object count after n more objects, kept only up to
\* TARGET_RECORDS
Counted(n) ==
    IF available = NotCounted THEN NotCounted
    ELSE IF available + n >= TARGET_RECORDS THEN TARGET_RECORDS
    ELSE available + n

\* ----------------------------------------------------------- initial state
\* NASADataExtractor.__init__, lines 9-13; the locals of collect_data are
\* not yet set
ExtractorInit ==
    /\ asteroid_data = <<>>
    /\ approach_data = <<>>
    /\ start_date = 0
    /\ total_records = 0
    /\ start_str = <<>>
    /\ end_str = <<>>
    /\ neo_data = "unset"
    /\ requests = 0

\* DatabaseManager.__init__, lines 8-10
ManagerInit ==
    /\ conn = 0
    /\ open_conns = {}
    /\ opened = 0
    /\ tx_asteroids = <<>>
    /\ tx_close_approach = <<>>
    /\ row = 0

\* no store file yet
FreshStore ==
    /\ tables_exist = FALSE
    /\ asteroids = <<>>
    /\ close_approach = <<>>

\* setup_database is called on a new store
Init ==
    /\ ExtractorInit
    /\ available = NotCounted
    /\ ManagerInit
    /\ FreshStore
    /\ neo_page = <<>>
    /\ pc = "create_tables"

\* the same, with the objects the feed holds being counted
InitFeed ==
    /\ ExtractorInit
    /\ available = 0
    /\ ManagerInit
    /\ FreshStore
    /\ neo_page = <<>>
    /\ pc = "create_tables"

\* --------------------------------------------------------- DatabaseManager
\* connect(), lines 12-15: a new connection replaces self.conn; the one
\* self.conn held before is not closed
Connect ==
    /\ opened' = opened + 1
    /\ conn' = opened + 1
    /\ open_conns' = open_conns \cup {opened + 1}

\* variant: the tables are dropped and created anew
CreateTablesDropsFirst ==
    /\ pc = "create_tables"
    /\ Connect
    /\ tables_exist' = TRUE
    /\ asteroids' = <<>>
    /\ close_approach' = <<>>
    /\ UNCHANGED <<tx_asteroids, tx_close_approach, row>>
    /\ pc' = "collect_data"
    /\ UNCHANGED <<extractor_vars, neo_page>>

\* create_tables(), lines 22-52; the commit at line 51 has no row to commit
CreateTables ==
    /\ pc = "create_tables"
    /\ Connect
    /\ tables_exist' = TRUE
    /\ UNCHANGED <<asteroids, close_approach, tx_asteroids, tx_close_approach,
                   row>>
    /\ pc' = "collect_data"
    /\ UNCHANGED <<extractor_vars, neo_page>>

\* a connection no variable refers to any more is closed when the runtime
\* reclaims it
Finalize ==
    /\ \E c \in open_conns \ {conn} : open_conns' = open_conns \ {c}
    /\ UNCHANGED <<conn, opened, tables_exist, asteroids, close_approach,
                   tx_asteroids, tx_close_approach, row>>
    /\ UNCHANGED <<extractor_vars, neo_page, pc>>

\* ------------------------------------------------------------ collect_data
\* setup_database line 97 and collect_data lines 58-61
StartCollect ==
    /\ pc = "collect_data"
    /\ asteroid_data' = <<>>
    /\ approach_data' = <<>>
    /\ start_date' = 0
    /\ total_records' = 0
    /\ pc' = "while"
    /\ UNCHANGED <<start_str, end_str, neo_data, available, requests>>
    /\ UNCHANGED <<db_vars, neo_page>>

\* lines 64-71 and 17-20: the window of this iteration is requested once
Request ==
    /\ start_str' = Strftime(start_date)
    /\ end_str' = Strftime(start_date + WindowSpan)
    /\ requests' = requests + 1

\* variant: the ceiling is tested on the start of the window just fetched,
\* before the window moves on
AdvanceChecksOldStart ==
    /\ start_date' = start_date + WindowSpan + WindowStep
    /\ pc' = IF Year(start_date) > CeilingYear THEN "trim" ELSE "while"

\* variant: the next window starts on the last day of the previous one
AdvanceOverlaps ==
    /\ start_date' = start_date + WindowSpan
    /\ pc' = IF Year(start_date + WindowSpan) > CeilingYear
             THEN "trim" ELSE "while"

\* lines 84-88: the window moves on; break once the year passes the ceiling
Advance ==
    /\ start_date' = start_date + WindowSpan + WindowStep
    /\ pc' = IF Year(start_date + WindowSpan + WindowStep) > CeilingYear
             THEN "trim" ELSE "while"

\* one iteration whose fetch returns a page and whose extraction succeeds
FetchOk ==
    /\ pc = "while"
    /\ total_records < TARGET_RECORDS
    /\ Request
    /\ neo_data' = "json"
    /\ Advance
    /\ \E page \in FeedPages :
          LET st == ExtractAsteroidFields(asteroid_data, approach_data, page)
          IN  /\ ~st.raised
              /\ asteroid_data' = st.asteroid_data
              /\ approach_data' = st.approach_data
              /\ total_records' = Len(st.asteroid_data)
              /\ available' = Counted(NumObjects(page))
    /\ UNCHANGED <<db_vars, neo_page>>

\* one iteration whose fetch returns a page in which a required key is
\* missing: the KeyError leaves collect_data and setup_database
ExtractRaises ==
    /\ pc = "while"
    /\ total_records < TARGET_RECORDS
    /\ Request
    /\ neo_data' = "json"
    /\ pc' = "KeyError"
    /\ \E page \in FeedPages :
          LET st == ExtractAsteroidFields(asteroid_data, approach_data, page)
          IN  /\ st.raised
              /\ asteroid_data' = st.asteroid_data
              /\ approach_data' = st.approach_data
              /\ available' = Counted(NumObjects(page))
    /\ UNCHANGED <<start_date, total_records>>
    /\ UNCHANGED <<db_vars, neo_page>>

\* variant: the RequestException is not caught and ends the run
FetchFailedAborts ==
    /\ pc = "while"
    /\ total_records < TARGET_RECORDS
    /\ Request
    /\ neo_data' = "None"
    /\ pc' = "RequestException"
    /\ \E n \in 0..MaxFeedObjects : available' = Counted(n)
    /\ UNCHANGED <<asteroid_data, approach_data, total_records, start_date>>
    /\ UNCHANGED <<db_vars, neo_page>>

\* one iteration whose fetch fails: fetch_neo_data catches the
\* RequestException and returns None (lines 23-25), the else branch runs;
\* the window holds n objects that are not delivered
FetchFailed ==
    /\ pc = "while"
    /\ total_records < TARGET_RECORDS
    /\ Request
    /\ neo_data' = "None"
    /\ Advance
    /\ \E n \in 0..MaxFeedObjects : available' = Counted(n)
    /\ UNCHANGED <<asteroid_data, approach_data, total_records>>
    /\ UNCHANGED <<db_vars, neo_page>>

\* line 63: the loop condition fails
WhileExit ==
    /\ pc = "while"
    /\ total_records >= TARGET_RECORDS
    /\ pc' = "trim"
    /\ UNCHANGED <<extractor_vars, db_vars, neo_page>>

\* variant: the object list is cut one record short
TrimOffByOne ==
    /\ pc = "trim"
    /\ asteroid_data' = Slice(asteroid_data, TARGET_RECORDS - 1)
    /\ approach_data' = Truncate(approach_data)
    /\ pc' = "insert_data"
    /\ start_date' = 0
    /\ total_records' = 0
    /\ start_str' = <<>>
    /\ end_str' = <<>>
    /\ neo_data' = "unset"
    /\ requests' = 0
    /\ available' = IF available = NotCounted THEN NotCounted ELSE 0
    /\ UNCHANGED <<db_vars, neo_page>>

\* lines 90-95; the locals of collect_data end with the return
Trim ==
    /\ pc = "trim"
    /\ asteroid_data' = Truncate(asteroid_data)
    /\ approach_data' = Truncate(approach_data)
    /\ pc' = "insert_data"
    /\ start_date' = 0
    /\ total_records' = 0
    /\ start_str' = <<>>
    /\ end_str' = <<>>
    /\ neo_data' = "unset"
    /\ requests' = 0
    /\ available' = IF available = NotCounted THEN NotCounted ELSE 0
    /\ UNCHANGED <<db_vars, neo_page>>

\* ------------------------------------------------------------- insert_data
\* variant: insert_data also runs, as in a finally clause, after a KeyError
InsertConnectInFinally ==
    /\ pc \in {"insert_data", "KeyError"}
    /\ Connect
    /\ row' = 0
    /\ UNCHANGED <<tables_exist, asteroids, close_approach, tx_asteroids,
                   tx_close_approach>>
    /\ pc' = "insert_asteroids"
    /\ UNCHANGED <<extractor_vars, neo_page>>

\* line 56
InsertConnect ==
    /\ pc = "insert_data"
    /\ Connect
    /\ row' = 0
    /\ UNCHANGED <<tables_exist, asteroids, close_approach, tx_asteroids,
                   tx_close_approach>>
    /\ pc' = "insert_asteroids"
    /\ UNCHANGED <<extractor_vars, neo_page>>

\* variant: the connection is in autocommit mode, each object row is
\* committed as it is inserted
InsertAsteroidAutocommit ==
    /\ pc = "insert_asteroids"
    /\ tables_exist
    /\ row < Len(asteroid_data)
    /\ asteroids' = Append(asteroids, asteroid_data[row + 1])
    /\ row' = row + 1
    /\ UNCHANGED <<conn, open_conns, opened, tables_exist, tx_asteroids,
                   close_approach, tx_close_approach>>
    /\ UNCHANGED <<extractor_vars, neo_page, pc>>

\* lines 59-69: the next object row is inserted into the open transaction
InsertAsteroid ==
    /\ pc = "insert_asteroids"
    /\ tables_exist
    /\ row < Len(asteroid_data)
    /\ tx_asteroids' = Append(tx_asteroids, asteroid_data[row + 1])
    /\ row' = row + 1
    /\ UNCHANGED <<conn, open_conns, opened, tables_exist, asteroids,
                   close_approach, tx_close_approach>>
    /\ UNCHANGED <<extractor_vars, neo_page, pc>>

\* line 59 finds no further object; the second loop starts (line 72)
AsteroidsInserted ==
    /\ pc = "insert_asteroids"
    /\ row = Len(asteroid_data)
    /\ row' = 0
    /\ pc' = "insert_approaches"
    /\ UNCHANGED <<conn, open_conns, opened, tables_exist, asteroids,
                   close_approach, tx_asteroids, tx_close_approach>>
    /\ UNCHANGED <<extractor_vars, neo_page>>

\* lines 72-83: the next approach row is inserted into the open transaction
InsertApproach ==
    /\ pc = "insert_approaches"
    /\ tables_exist
    /\ row < Len(approach_data)
    /\ tx_close_approach' = Append(tx_close_approach, approach_data[row + 1])
    /\ row' = row + 1
    /\ UNCHANGED <<conn, open_conns, opened, tables_exist, asteroids,
                   close_approach, tx_asteroids>>
    /\ UNCHANGED <<extractor_vars, neo_page, pc>>

\* an INSERT raises sqlite3.Error (always so when the table is missing); it
\* leaves insert_data and its caller
InsertRaises ==
    /\ \/ pc = "insert_asteroids" /\ row < Len(asteroid_data)
       \/ pc = "insert_approaches" /\ row < Len(approach_data)
    /\ pc' = "sqlite3.Error"
    /\ UNCHANGED <<extractor_vars, db_vars, neo_page>>

\* line 85: the commit of insert_data
Commit ==
    /\ pc = "insert_approaches"
    /\ row = Len(approach_data)
    /\ asteroids' = asteroids \o tx_asteroids
    /\ close_approach' = close_approach \o tx_close_approach
    /\ tx_asteroids' = <<>>
    /\ tx_close_approach' = <<>>
    /\ pc' = "close"
    /\ UNCHANGED <<conn, open_conns, opened, tables_exist, row>>
    /\ UNCHANGED <<extractor_vars, neo_page>>

\* close(), lines 17-20, called at line 103
Close ==
    /\ pc = "close"
    /\ open_conns' = IF conn # 0 THEN open_conns \ {conn} ELSE open_conns
    /\ pc' = "done"
    /\ UNCHANGED <<conn, opened, tables_exist, asteroids, close_approach,
                   tx_asteroids, tx_close_approach, row>>
    /\ UNCHANGED <<extractor_vars, neo_page>>

\* setup_database, lines 89-104
Next ==
    \/ CreateTables
    \/ Finalize
    \/ StartCollect
    \/ FetchOk
    \/ ExtractRaises
    \/ FetchFailed
    \/ WhileExit
    \/ Trim
    \/ InsertConnect
    \/ InsertAsteroid
    \/ AsteroidsInserted
    \/ InsertApproach
    \/ InsertRaises
    \/ Commit
    \/ Close

Spec == Init /\ [][Next]_vars

SpecFeed == InitFeed /\ [][Next]_vars

\* one pass of the loop body, lines 63-71: the loop condition holds and the
\* fetch of line 71 is issued (FetchOk, ExtractRaises or FetchFailed)
Iteration ==
    /\ pc = "while"
    /\ total_records < TARGET_RECORDS
    /\ requests' = requests + 1

\* setup_database, with collect_data running on: the interpreter executes
\* its statements one after another, and each fetch returns a response or
\* raises (lines 19-25), so that no statement of collect_data waits for ever
SpecCollect ==
    /\ Init /\ [][Next]_vars
    /\ WF_vars(StartCollect) /\ WF_requests(Iteration)
    /\ WF_vars(WhileExit) /\ WF_vars(Trim)

\* ------------------------- create_tables and insert_data called directly
\* the batches a caller hands to insert_data: what collect_data returns for
\* a feed of one page, cut to MaxBatch records
Batches ==
    {[asteroid_data |-> Slice(st.asteroid_data, n),
      approach_data |-> Slice(st.approach_data, n)] :
        st \in {ExtractAsteroidFields(<<>>, <<>>, p) :
                   p \in {q \in Pages : Valid(Flatten(q))}},
        n \in 0..MaxBatch}

\* a DatabaseManager on a new store and a batch to insert
InitStore ==
    /\ \E b \in Batches :
          /\ asteroid_data = b.asteroid_data
          /\ approach_data = b.approach_data
    /\ start_date = 0
    /\ total_records = 0
    /\ start_str = <<>>
    /\ end_str = <<>>
    /\ neo_data = "unset"
    /\ requests = 0
    /\ available = NotCounted
    /\ ManagerInit
    /\ FreshStore
    /\ neo_page = <<>>
    /\ pc = "idle"

\* the caller calls create_tables()
CallCreateTables ==
    /\ pc = "idle"
    /\ opened < MaxCalls
    /\ pc' = "create_tables"
    /\ UNCHANGED <<extractor_vars, db_vars, neo_page>>

\* the caller calls insert_data with the batch
CallInsertData ==
    /\ pc = "idle"
    /\ opened < MaxCalls
    /\ pc' = "insert_data"
    /\ UNCHANGED <<extractor_vars, db_vars, neo_page>>

\* create_tables or insert_data has returned to the caller
Returns ==
    /\ pc \in {"collect_data", "close"}
    /\ pc' = "idle"
    /\ UNCHANGED <<extractor_vars, db_vars, neo_page>>

NextStore ==
    \/ CallCreateTables
    \/ CallInsertData
    \/ Returns
    \/ CreateTables
    \/ Finalize
    \/ InsertConnect
    \/ InsertAsteroid
    \/ AsteroidsInserted
    \/ InsertApproach
    \/ InsertRaises
    \/ Commit
    \/ Close

SpecStore == InitStore /\ [][NextStore]_vars

\* ------------------------------- extract_asteroid_fields called directly
\* an extractor that holds the records of an earlier page, and a page
InitExtract ==
    /\ \E b \in Batches :
          /\ asteroid_data = b.asteroid_data
          /\ approach_data = b.approach_data
    /\ neo_page \in Pages
    /\ start_date = 0
    /\ total_records = 0
    /\ start_str = <<>>
    /\ end_str = <<>>
    /\ neo_data = "json"
    /\ requests = 0
    /\ available = NotCounted
    /\ ManagerInit
    /\ FreshStore
    /\ pc = "extract"

\* extract_asteroid_fields(neo_page), lines 27-54
ExtractCall ==
    /\ pc = "extract"
    /\ LET st == ExtractAsteroidFields(asteroid_data, approach_data, neo_page)
       IN  /\ asteroid_data' = st.asteroid_data
           /\ approach_data' = st.approach_data
           /\ pc' = IF st.raised THEN "KeyError" ELSE "extracted"
    /\ UNCHANGED <<start_date, total_records, start_str, end_str, neo_data,
                   available, requests>>
    /\ UNCHANGED <<db_vars, neo_page>>

NextExtract == ExtractCall

SpecExtract == InitExtract /\ [][NextExtract]_vars

\* ------------------------------------------------------------- properties
IsPrefix(a, b) == Len(a) <= Len(b) /\ SubSeq(b, 1, Len(a)) = a

RECURSIVE SumLens(_)
SumLens(list) ==
    IF list = <<>> THEN 0
    ELSE Len(Head(list).close_approach_data) + SumLens(Tail(list))

\* sum of the close_approach_data lengths over all objects on all dates
SumApproaches(page) == SumLens(Flatten(page))

\* positions of setup_database at which collect_data has returned its batch
Returned ==
    {"insert_data", "insert_asteroids", "insert_approaches", "close", "done",
     "sqlite3.Error"}

\* the window that was requested last started after the last window that
\* starts in CeilingYear, so every window before the ceiling was requested
AtCeiling == Year(start_date) > CeilingYear

\* C1: collect_data returns exactly TARGET_RECORDS object records whenever
\* the feed holds at least TARGET_RECORDS objects in the windows before the
\* ceiling, and otherwise returns at the ceiling with fewer.
C1_ExactTargetOrCeiling ==
    [][pc = "trim" /\ pc' = "insert_data" =>
          /\ available >= TARGET_RECORDS =>
                Len(asteroid_data') = TARGET_RECORDS
          /\ available < TARGET_RECORDS /\ AtCeiling =>
                Len(asteroid_data') < TARGET_RECORDS]_vars

\* C2: the fetch after a failed fetch requests the same window again, and
\* the window start moves only after a successful fetch.
C2_RetrySameWindow ==
    [][pc = "while" /\ requests' = requests + 1 =>
          /\ neo_data = "None" =>
                start_str' = start_str /\ end_str' = end_str
          /\ start_date' # start_date => neo_data' = "json"]_vars

\* C3: in the batch collect_data returns, every approach record's
\* neo_reference_id is the id of an object record of the same batch.
C3_ApproachRefersToObject ==
    pc \in Returned =>
        \A i \in DOMAIN approach_data :
            \E j \in DOMAIN asteroid_data :
                asteroid_data[j].id = approach_data[i].neo_reference_id

\* a returned batch of TARGET_RECORDS records whose approach records refer to
\* more than one object
C3_Witness ==
    /\ pc = "insert_data"
    /\ Len(approach_data) = TARGET_RECORDS
    /\ \E i, j \in DOMAIN approach_data :
          approach_data[i].neo_reference_id # approach_data[j].neo_reference_id

\* C4: extract_asteroid_fields adds one object record per object entry of the
\* page, whatever the number of its close approaches; for a page of one
\* object with k approaches it adds k approach records, all with its id.
C4_OneObjectRecordPerObject ==
    [][pc = "extract" /\ pc' = "extracted" =>
          /\ Len(asteroid_data') = Len(asteroid_data) + NumObjects(neo_page)
          /\ NumObjects(neo_page) = 1 =>
                LET o == Flatten(neo_page)[1]
                IN  /\ Len(approach_data') =
                           Len(approach_data) + Len(o.close_approach_data)
                    /\ \A i \in (Len(approach_data) + 1)..Len(approach_data') :
                           approach_data'[i].neo_reference_id = IntOf(o.id)]_vars

\* C5: for a valid page, extract_asteroid_fields appends as many approach
\* records as the close_approach_data lists of the page's objects hold in
\* total, after the records already present.
C5_ApproachCount ==
    [][pc = "extract" /\ pc' = "extracted" =>
          /\ Len(approach_data') = Len(approach_data) + SumApproaches(neo_page)
          /\ IsPrefix(approach_data, approach_data')]_vars

\* a page of two dates, whose objects have three approaches in all, extracted
C5_Witness ==
    /\ pc = "extracted"
    /\ Len(neo_page) = 2
    /\ SumApproaches(neo_page) = 3
    /\ Len(approach_data) >= 3

\* C6: a failed fetch issues one request, returns None, leaves both lists
\* and the running count as they are, and the loop goes on (it ends only
\* through the date ceiling); the run is not aborted.
C6_FailedFetchKeepsState ==
    [][pc = "while" /\ requests' # requests /\ neo_data' = "None" =>
          /\ requests' = requests + 1
          /\ asteroid_data' = asteroid_data
          /\ approach_data' = approach_data
          /\ total_records' = total_records
          /\ pc' \in {"while", "trim"}
          /\ pc' = "trim" => Year(start_date') > CeilingYear]_vars

\* the loop goes on after a fetch that failed when records were already held
C6_Witness ==
    /\ pc = "while"
    /\ neo_data = "None"
    /\ total_records > 0
    /\ Len(asteroid_data) = total_records
    /\ total_records < TARGET_RECORDS

\* C7 as stated: a malformed object makes the page fail as a whole: no record
\* of the page is added to the lists, the failure is neither caught nor
\* retried, insert_data is not called and no row reaches the store.
C7_NoRecordOfFailedPage ==
    [][/\ pc = "while" /\ pc' = "KeyError" =>
             asteroid_data' = asteroid_data /\ approach_data' = approach_data
       /\ pc = "KeyError" => pc' = "KeyError"
       /\ pc' = "KeyError" =>
             /\ opened' = 1
             /\ tx_asteroids' = <<>> /\ tx_close_approach' = <<>>
             /\ asteroids' = <<>> /\ close_approach' = <<>>]_vars

\* C7 amended: a malformed object makes the extraction raise; the records
\* extracted from the page before the missing key was met stay appended to
\* the lists (in equal number to both), the running count and the window are not updated, the
\* failure is neither caught nor retried, insert_data is not called and no
\* row reaches the store.
C7_FailurePropagates ==
    [][/\ pc = "while" /\ pc' = "KeyError" =>
             /\ IsPrefix(asteroid_data, asteroid_data')
             /\ IsPrefix(approach_data, approach_data')
             /\ Len(asteroid_data') - Len(asteroid_data) =
                    Len(approach_data') - Len(approach_data)
             /\ Len(asteroid_data') - Len(asteroid_data) <
                    MaxFeedObjects * MaxApproaches
             /\ total_records' = total_records
             /\ start_date' = start_date
       /\ pc = "KeyError" => pc' = "KeyError"
       /\ pc' = "KeyError" =>
             /\ opened' = 1
             /\ tx_asteroids' = <<>> /\ tx_close_approach' = <<>>
             /\ asteroids' = <<>> /\ close_approach' = <<>>]_vars

\* the run ended in KeyError with records of the failed page in the lists
C7_Witness ==
    /\ pc = "KeyError"
    /\ Len(asteroid_data) > total_records
    /\ asteroids = <<>>
    /\ opened = 1

\* C8: rows of the store are never changed or removed; create_tables leaves
\* the rows of an existing store as they are; insert_data appends the whole
\* batch, so that a store holding the batch once holds it twice afterwards.
C8_AppendOnly ==
    [][/\ IsPrefix(asteroids, asteroids')
       /\ IsPrefix(close_approach, close_approach')
       /\ pc = "create_tables" =>
             asteroids' = asteroids /\ close_approach' = close_approach
       /\ pc = "insert_approaches" /\ pc' = "close" =>
             /\ asteroids' = asteroids \o asteroid_data
             /\ close_approach' = close_approach \o approach_data
             /\ asteroids = asteroid_data =>
                   Len(asteroids') = 2 * Len(asteroid_data)
             /\ close_approach = approach_data =>
                   Len(close_approach') = 2 * Len(approach_data)]_vars

\* insert_data has returned for the second time with the same batch
C8_Witness ==
    /\ pc = "close"
    /\ Len(asteroid_data) > 0
    /\ asteroids = asteroid_data \o asteroid_data
    /\ close_approach = approach_data \o approach_data

\* the last n rows of a table
LastRows(table, n) ==
    IF Len(table) < n THEN <<>>
    ELSE SubSeq(table, Len(table) - n + 1, Len(table))

\* C9 as stated: insert_data commits when the object rows are inserted and
\* again when the approach rows are; a failure in the approach phase finds
\* all object rows of the batch committed.
C9_CommitAfterEachPhase ==
    [][/\ pc = "insert_asteroids" /\ pc' = "insert_approaches" =>
             asteroids' = asteroids \o asteroid_data
       /\ pc = "insert_approaches" /\ pc' = "sqlite3.Error" =>
             /\ tx_asteroids' = <<>>
             /\ LastRows(asteroids', Len(asteroid_data)) = asteroid_data]_vars

\* C9 amended: insert_data commits once, after both loops; the committed
\* rows change only in that step, which adds the whole batch to both tables,
\* and a failure in either loop leaves the committed rows as they were
\* before the call, with no part of the batch among them.
C9_SingleCommit ==
    [][/\ asteroids' # asteroids \/ close_approach' # close_approach =>
             /\ pc = "insert_approaches" /\ pc' = "close"
             /\ row = Len(approach_data)
             /\ asteroids' = asteroids \o asteroid_data
             /\ close_approach' = close_approach \o approach_data
       /\ pc' = "sqlite3.Error" =>
             /\ asteroids' = asteroids /\ close_approach' = close_approach
             /\ asteroid_data # <<>> =>
                   Len(asteroids') % Len(asteroid_data) = 0
             /\ approach_data # <<>> =>
                   Len(close_approach') % Len(approach_data) = 0]_vars

\* an INSERT of the approach loop failed after all object rows were inserted
C9_Witness ==
    /\ pc = "sqlite3.Error"
    /\ tables_exist
    /\ asteroid_data # <<>>
    /\ tx_asteroids = asteroid_data
    /\ Len(tx_close_approach) < Len(approach_data)
    /\ asteroids = <<>>

\* C10: at most one connection is open at any time, none is open while
\* collect_data runs, and none is open when setup_database has returned.
C10_ConnectionPerOperation ==
    /\ Cardinality(open_conns) <= 1
    /\ pc \in {"collect_data", "while", "trim"} => open_conns = {}
    /\ pc = "done" => open_conns = {}

RECURSIVE DaysBeforeYear(_)
\* days from 1 January of EpochYear to 1 January of year y
DaysBeforeYear(y) ==
    IF y <= EpochYear THEN 0 ELSE DaysBeforeYear(y - 1) + DaysInYear(y - 1)

RECURSIVE DaysBeforeMonth(_, _)
\* days from 1 January of year y to the first of month m
DaysBeforeMonth(y, m) ==
    IF m <= 1 THEN 0 ELSE DaysBeforeMonth(y, m - 1) + DaysInMonth(y, m - 1)

\* the day number of the date a "%Y-%m-%d" string names, 2024-01-01 being 0
Ordinal(str) ==
    DaysBeforeYear(str[1]) + DaysBeforeMonth(str[1], str[2]) + str[3] - 1

\* a step of collect_data that issues a fetch
Fetches == pc = "while" /\ requests' = requests + 1

\* C11: no fetch is issued once the running count of object records has
\* reached TARGET_RECORDS, nor for a window that starts after 2025-12-31;
\* the loop is left as soon as either holds.
C11_NoFetchPastTargetOrCeiling ==
    [][/\ Fetches =>
             /\ total_records < TARGET_RECORDS
             /\ Len(asteroid_data) < TARGET_RECORDS
             /\ Ordinal(start_str') <= Ordinal(<<2025, 12, 31>>)
       /\ pc' = "while" =>
             /\ Ordinal(Strftime(start_date')) <= Ordinal(<<2025, 12, 31>>)
             /\ total_records' = Len(asteroid_data')
       /\ pc = "while" /\ total_records >= TARGET_RECORDS =>
             pc' = "trim" /\ requests' = requests
       /\ pc = "while" /\ pc' = "trim" =>
             \/ total_records >= TARGET_RECORDS
             \/ Ordinal(Strftime(start_date')) > Ordinal(<<2025, 12, 31>>)]_vars

\* the loop was left because the count reached the target, with windows of
\* 2025 still unrequested
C11_Witness ==
    /\ pc = "trim"
    /\ requests > 1
    /\ total_records >= TARGET_RECORDS
    /\ Ordinal(Strftime(start_date)) <= Ordinal(<<2025, 12, 31>>)

C13_Terminates ==
    /\ [](requests <= 105)
    /\ [](pc = "trim" /\ requests = 105 => start_str = <<2025, 12, 29>>)
    /\ (pc = "while") ~> (pc = "insert_data" \/ pc = "KeyError")

\* collect_data leaves the loop after 105 fetches that all failed
C13_Witness ==
    /\ pc = "trim"
    /\ requests = 105
    /\ neo_data = "None"
    /\ asteroid_data = <<>>
    /\ total_records = 0

\* C14: at every point of the run, after each extract_asteroid_fields call
\* and after the truncation, the two lists have equal length and the object
\* record at each position has the id the approach record at that position
\* refers to.
C14_ListsAligned ==
    /\ Len(asteroid_data) = Len(approach_data)
    /\ \A i \in DOMAIN asteroid_data :
           asteroid_data[i].id = approach_data[i].neo_reference_id

\* collect_data has truncated and returned TARGET_RECORDS records that stem
\* from more than one extract_asteroid_fields call and more than one object
C14_Witness ==
    /\ pc = "insert_data"
    /\ Len(asteroid_data) = TARGET_RECORDS
    /\ Len(approach_data) = TARGET_RECORDS
    /\ asteroid_data[1].id # asteroid_data[TARGET_RECORDS].id
    /\ approach_data[TARGET_RECORDS].neo_reference_id =
           asteroid_data[TARGET_RECORDS].id

====
